---- MODULE Spec2Model ----
(***************************************************************************)
(* Model of the content pipeline's stage orchestration:                    *)
(*   services/base_service.py      BaseContentService.process_request      *)
(*   services/research_service.py  ResearchService.process_research_request*)
(*   services/{refine,image_prompt,metadata,markdown}_service.py           *)
(*   utils/dynamodb_helper.py, utils/s3_helper.py, utils/errors.py         *)
(* One action per store call / agent call of an invocation; the Record     *)
(* Store and the Blob Store may reject any call, the agent may return any  *)
(* value or raise.                                                         *)
(*   agents/{image_prompt,image_slug,metadata}_openai.py: what the agents  *)
(*   make of the model's text (parsing, count enforcement, slug clean-up)  *)
(* Spec: one invocation at a time; SpecConc: two invocations side by side  *)
(* on one Post; SpecFn: the agents' functions applied to drawn inputs.     *)
(***************************************************************************)
EXTENDS Integers, Sequences, FiniteSets, TLC

VARIABLES posts, settings, blobs, clock, inv, lastw, fn

vars == <<posts, settings, blobs, clock, inv, lastw, fn>>

(***************************************************************************)
(* Bounds                                                                  *)
(***************************************************************************)
\* largest value the wall clock (int(time.time())) reaches in a behaviour
MaxClock == 1

\* invocation slots
Inv == {"i1"}

\* invocation slots of the concurrent runs
ConcInv == {"i1", "i2"}

\* stages requested in the concurrent runs
ConcStages == {"refine", "metadata"}

\* slugs handed to the clean-up have at most this many characters
MaxSlugLen == 3

\* positions of a slug in its list are 0..MaxIndex
MaxIndex == 2

\* a model output lists at most this many elements
MaxItems == 5

\* at most this many items are requested
MaxPrompts == 3

\* an attribute map handed to update_post_item has at most this many keys
MaxAttrs == 2

\* a text saved to the Blob Store has at most this many characters
MaxTextLen == 2

(***************************************************************************)
(* Constants of the program                                                *)
(***************************************************************************)
POST_ID == "postId"
WEBSITE_ID == "websiteId"
BLOG_TITLE == "blogTitle"
POST_STATUS == "postStatus"
RESEARCH_ARTICLE_URI == "researchArticleUri"
REFINED_ARTICLE_URI == "refinedArticleUri"
IMAGE_PROMPTS == "imagePrompts"
METADATA == "metadata"
MARKDOWN_URI == "markdownUri"
UPDATE_TIMESTAMP == "updateTimestamp"

S3_RESEARCH_FILENAME == "research_article.txt"
S3_REFINED_FILENAME == "refined_article.txt"
S3_MARKDOWN_FILENAME == "final_article.md"

\* the placeholder the inline stages return from _save_agent_output
DynamoDB_Updated == <<"DynamoDB_Updated">>

\* CONTENT_BUCKET_NAME of the deployment
bucket_name == "B"

\* the stages whose service is in the repository
BaseStages == {"refine", "image_prompt", "metadata", "markdown"}
Stages == {"research"} \cup BaseStages

\* request identifiers; "" is a missing or empty identifier
PostIds == {"P1"}
WebsiteIds == {"W1", "W2"}

(***************************************************************************)
(* Stage contract: the declarations of each service class                  *)
(***************************************************************************)
service_name(stage) ==
    CASE stage = "research"     -> "ResearchService"
      [] stage = "refine"       -> "RefineService"
      [] stage = "image_prompt" -> "ImagePromptService"
      [] stage = "metadata"     -> "MetadataService"
      [] stage = "markdown"     -> "MarkdownService"

status_prefix(stage) ==
    CASE stage = "research"     -> "RESEARCH"
      [] stage = "refine"       -> "REFINE"
      [] stage = "image_prompt" -> "IMAGE_PROMPT"
      [] stage = "metadata"     -> "METADATA"
      [] stage = "markdown"     -> "MARKDOWN"

output_uri_db_key(stage) ==
    CASE stage = "research"     -> RESEARCH_ARTICLE_URI
      [] stage = "refine"       -> REFINED_ARTICLE_URI
      [] stage = "image_prompt" -> IMAGE_PROMPTS
      [] stage = "metadata"     -> METADATA
      [] stage = "markdown"     -> MARKDOWN_URI

\* the Post attribute a stage's _call_agent reads its upstream locator from
upstream_key(stage) ==
    IF stage = "refine" THEN RESEARCH_ARTICLE_URI ELSE REFINED_ARTICLE_URI

\* stages that read an upstream artifact (research reads none)
HasUpstream(stage) == stage # "research"

\* stages whose _save_agent_output writes the Post record instead of a blob
InlineStage(stage) == stage \in {"image_prompt", "metadata"}

output_filename(stage) ==
    CASE stage = "research" -> S3_RESEARCH_FILENAME
      [] stage = "refine"   -> S3_REFINED_FILENAME
      [] stage = "markdown" -> S3_MARKDOWN_FILENAME

StatusSTARTED(stage) == status_prefix(stage) \o "_STARTED"
StatusCOMPLETE(stage) == status_prefix(stage) \o "_COMPLETE"
StatusFAILED(stage) == status_prefix(stage) \o "_FAILED"

(***************************************************************************)
(* utils/errors.py                                                         *)
(***************************************************************************)
\* ServiceError(message, status_code, service_name)
ServiceError(message, status_code, svc) ==
    [isService |-> TRUE, message |-> message, status_code |-> status_code,
     service_name |-> svc]

\* ServiceError(message): status_code and service_name take their defaults
ServiceErrorDefaults(message) == ServiceError(message, 500, "UnknownService")

\* an exception that is not a ServiceError (ValueError, TypeError, ...)
OtherException(message) ==
    [isService |-> FALSE, message |-> message, status_code |-> 0,
     service_name |-> ""]

NoError == [isService |-> FALSE, message |-> "", status_code |-> 0,
            service_name |-> ""]

(***************************************************************************)
(* Record Store (utils/dynamodb_helper.py)                                 *)
(***************************************************************************)
\* dict.get(key) is falsy: the attribute is absent (stored values are never
\* empty: a status, a locator or a non-empty inline value)
Missing(item, key) == key \notin DOMAIN item

\* a one-attribute map {key: value}
Attr(key, value) == [k \in {key} |-> value]

Merge(old, new) ==
    [k \in DOMAIN old \cup DOMAIN new |->
        IF k \in DOMAIN new THEN new[k] ELSE old[k]]

\* variant: the write replaces the item (put_item) instead of merging
UpdatedItem_Put(ps, post_id, attributes) ==
    Merge(Attr(POST_ID, post_id), attributes)

\* the item update_item leaves under post_id: SET merges the attributes onto
\* the existing item, and creates the item when there is none (the call has
\* no ConditionExpression)
UpdatedItem(ps, post_id, attributes) ==
    Merge(IF post_id \in DOMAIN ps THEN ps[post_id]
                                   ELSE Attr(POST_ID, post_id),
          attributes)

\* variant: the write is conditional on the attributes not being set yet
update_post_item_IfNotExists(ps, post_id, attributes_to_update, now) ==
    IF \/ DOMAIN attributes_to_update = {}
       \/ /\ post_id \in DOMAIN ps
          /\ DOMAIN attributes_to_update \subseteq DOMAIN ps[post_id]
    THEN ps
    ELSE [p \in DOMAIN ps \cup {post_id} |->
            IF p = post_id
            THEN UpdatedItem(ps, post_id,
                     Merge(attributes_to_update, Attr(UPDATE_TIMESTAMP, now)))
            ELSE ps[p]]

\* update_post_item accepted by the store, called when the clock reads now
update_post_item(ps, post_id, attributes_to_update, now) ==
    IF DOMAIN attributes_to_update = {}
    THEN ps
    ELSE [p \in DOMAIN ps \cup {post_id} |->
            IF p = post_id
            THEN UpdatedItem(ps, post_id,
                     Merge(attributes_to_update, Attr(UPDATE_TIMESTAMP, now)))
            ELSE ps[p]]

\* ResearchService calls db_helper.update_post_status(post_id, status) and
\* db_helper.update_post_research_uri(post_id, s3_uri), which DynamoDBHelper
\* does not define: partial updates of the one attribute, as the Record Store
\* contract describes them
update_post_status(ps, post_id, status, now) ==
    update_post_item(ps, post_id, Attr(POST_STATUS, status), now)

update_post_research_uri(ps, post_id, s3_uri, now) ==
    update_post_item(ps, post_id, Attr(RESEARCH_ARTICLE_URI, s3_uri), now)

(***************************************************************************)
(* Blob Store (utils/s3_helper.py)                                         *)
(***************************************************************************)
\* f"s3://{bucket}/{key}" split at "/": <<"s3:", "", bucket>> \o key
S3Uri(bucket, key) == <<"s3:", "", bucket>> \o key

IsPrefix(p, s) == Len(p) <= Len(s) /\ SubSeq(s, 1, Len(p)) = p

\* read_text_file's locator check
ValidUri(s3_uri) == Len(s3_uri) > 0 /\ IsPrefix(S3Uri(bucket_name, <<>>), s3_uri)

\* the key read_text_file extracts from a valid locator
UriKey(s3_uri) == SubSeq(s3_uri, Len(S3Uri(bucket_name, <<>>)) + 1, Len(s3_uri))

\* f"{website_id}/{post_id}/{filename}"
OutputKey(stage, website_id, post_id) ==
    <<website_id, post_id, output_filename(stage)>>

(***************************************************************************)
(* Agent: an external collaborator; the callable _select_agent returns may  *)
(* return any value or raise                                               *)
(***************************************************************************)
NoOutput == [type |-> "unset", empty |-> TRUE, val |-> ""]

\* None, and empty / non-empty values of the three result types
AgentValues ==
    {[type |-> "none", empty |-> TRUE, val |-> ""],
     [type |-> "str", empty |-> TRUE, val |-> ""],
     [type |-> "str", empty |-> FALSE, val |-> "T1"],
     [type |-> "list", empty |-> TRUE, val |-> ""],
     [type |-> "list", empty |-> FALSE, val |-> "L1"],
     [type |-> "dict", empty |-> TRUE, val |-> ""],
     [type |-> "dict", empty |-> FALSE, val |-> "D1"]}

\* the values the callable returns in the concurrent runs
ConcAgentValues ==
    {[type |-> "none", empty |-> TRUE, val |-> ""],
     [type |-> "str", empty |-> FALSE, val |-> "T1"],
     [type |-> "dict", empty |-> FALSE, val |-> "D1"],
     [type |-> "dict", empty |-> FALSE, val |-> "D2"]}

\* Python truthiness of an agent result: "not x"
Falsy(out) == out.type = "none" \/ out.empty

\* the keyword arguments of the agent call bind the parameters of the agent
\* the service selects: research_service.py:80-83 passes blog_title and
\* website_settings only, generate_research_draft has three more required
\* parameters (agents/research_openai.py:20)
AgentCallBinds(stage) == stage # "research"

(***************************************************************************)
(* Model text and its parsed form (json.loads)                             *)
(***************************************************************************)
\* strings that are processed character by character are sequences of
\* one-character strings
JInvalid == [t |-> "invalid"]
JNull == [t |-> "null"]
JNum(n) == [t |-> "num", n |-> n]
JStr(s) == [t |-> "str", s |-> s]
JList(items) == [t |-> "list", items |-> items]
JDict(f) == [t |-> "dict", f |-> f]

NoKeys == [k \in {} |-> JNull]

\* bool(v)
Truthy(v) ==
    CASE v.t = "num" -> v.n # 0
      [] v.t = "str" -> Len(v.s) > 0
      [] v.t = "list" -> Len(v.items) > 0
      [] v.t = "dict" -> DOMAIN v.f # {}
      [] OTHER -> FALSE

\* dict.get(key)
Get(d, key) == IF key \in DOMAIN d.f THEN d.f[key] ELSE JNull

\* a or b
Or(a, b) == IF Truthy(a) THEN a ELSE b

\* all(isinstance(x, str) for x in items)
AllStr(items) == \A k \in 1..Len(items) : items[k].t = "str"

\* items[:n] for n >= 0
Take(items, n) == SubSeq(items, 1, IF n < Len(items) THEN n ELSE Len(items))

MetaDoc ==
    JDict([metaTitle |-> JStr(<<"t">>), metaDescription |-> JStr(<<"d">>),
           keywords |-> JList(<<JStr(<<"k">>)>>)])

\* the texts a model returns in the workflow runs, and what json.loads makes
\* of them; "not json" raises JSONDecodeError
ModelTexts == {"not json", "{}", "meta", "[\"s\"]"}

\* variant: text that is not JSON is read as a metadata document
json_loads_Lenient(text) ==
    CASE text = "{}" -> JDict(NoKeys)
      [] text = "[\"s\"]" -> JList(<<JStr(<<"s">>)>>)
      [] OTHER -> MetaDoc

json_loads(text) ==
    CASE text = "not json" -> JInvalid
      [] text = "{}" -> JDict(NoKeys)
      [] text = "meta" -> MetaDoc
      [] text = "[\"s\"]" -> JList(<<JStr(<<"s">>)>>)

(***************************************************************************)
(* Slug clean-up                                                           *)
(***************************************************************************)
LowerCase == <<"a","b","c","d","e","f","g","h","i","j","k","l","m",
               "n","o","p","q","r","s","t","u","v","w","x","y","z">>
UpperCase == <<"A","B","C","D","E","F","G","H","I","J","K","L","M",
               "N","O","P","Q","R","S","T","U","V","W","X","Y","Z">>
DigitChars == <<"0","1","2","3","4","5","6","7","8","9">>

Range(f) == {f[k] : k \in DOMAIN f}

\* str.lower() of one character; "É" stands for the non-ASCII letters
lower1(c) ==
    IF c \in Range(UpperCase)
    THEN LowerCase[CHOOSE k \in 1..26 : UpperCase[k] = c]
    ELSE IF c = "É" THEN "é" ELSE c

lower(s) == [k \in 1..Len(s) |-> lower1(s[k])]

\* the character class [a-z0-9-]
IsSlugChar(c) == c \in Range(LowerCase) \cup Range(DigitChars) \cup {"-"}

\* str.isalnum() of one character: letters and digits, non-ASCII included
isalnum(c) ==
    c \in Range(LowerCase) \cup Range(UpperCase) \cup Range(DigitChars)
          \cup {"é", "É"}

IsAlnumOrHyphen(c) == isalnum(c) \/ c = "-"

\* str(i) for i >= 0
RECURSIVE str(_)
str(i) == IF i < 10 THEN <<DigitChars[i + 1]>>
                    ELSE str(i \div 10) \o <<DigitChars[(i % 10) + 1]>>

\* f"image-{i}"
ImageDefault(i) == <<"i", "m", "a", "g", "e", "-">> \o str(i)

\* re.sub(r'-+', '-', s)
RECURSIVE CollapseHyphens(_)
CollapseHyphens(s) ==
    IF Len(s) < 2 THEN s
    ELSE IF s[1] = "-" /\ s[2] = "-" THEN CollapseHyphens(Tail(s))
    ELSE <<s[1]>> \o CollapseHyphens(Tail(s))

\* s.strip('-')
RECURSIVE StripHyphens(_)
StripHyphens(s) ==
    IF Len(s) = 0 THEN s
    ELSE IF s[1] = "-" THEN StripHyphens(Tail(s))
    ELSE IF s[Len(s)] = "-" THEN StripHyphens(SubSeq(s, 1, Len(s) - 1))
    ELSE s

\* re.sub(r'[^a-z0-9-]+', '', slug.lower()), then hyphen runs are collapsed
\* and the ends are stripped
RegexClean(slug) ==
    StripHyphens(CollapseHyphens(SelectSeq(lower(slug), IsSlugChar)))

\* agents/image_slug_openai.py:84-86, slug at index i of the list
CleanSlug_slug_agent(slug, i) ==
    IF RegexClean(slug) # <<>> THEN RegexClean(slug) ELSE ImageDefault(i)

\* agents/image_prompt_openai.py:181-184: n items were validated before;
\* '-'.join(slug.split('-')) gives the string back
CleanSlug_prompt_agent(slug, n) ==
    LET kept == SelectSeq(lower(slug), IsAlnumOrHyphen)
    IN  IF kept # <<>> THEN kept ELSE ImageDefault(n)

\* a cleaned slug, or the clean-up raised
NoSlug == [ok |-> FALSE, slug |-> <<>>]

Slug(s) == [ok |-> TRUE, slug |-> s]

\* utils/s3_helper.py:132 and 144-146: the function binds the name re itself
\* (except ... as re, lines 118 and 163), the module re is not imported, so
\* re.sub at line 144 raises UnboundLocalError, which the function's last
\* handler turns into the result None
CleanSlug_s3_helper(slug) == NoSlug

(***************************************************************************)
(* The bundled agents' handling of the model output                        *)
(***************************************************************************)
\* the agent raised
Fail == [ok |-> FALSE, items |-> <<>>]

Return(items) == [ok |-> TRUE, items |-> items]

\* agents/image_prompt_openai.py:79-94; a document that is not a dict has no
\* get (AttributeError), unparseable text raises JSONDecodeError
generate_image_prompts(output_data, num_prompts) ==
    IF output_data.t # "dict"
    THEN Fail
    ELSE LET prompt_list == Or(Or(Get(output_data, "prompts"),
                                  Get(output_data, "image_prompts")),
                               Get(output_data, "imagePrompts"))
         IN  IF prompt_list.t = "list" /\ AllStr(prompt_list.items)
             THEN Return(Take(prompt_list.items, num_prompts))
             ELSE Fail

\* agents/image_prompt_openai.py:156-172: the list of candidate items
prompt_slug_list_raw(output_data) ==
    IF output_data.t = "list"
    THEN Return(output_data.items)
    ELSE IF output_data.t = "dict"
    THEN LET list_candidate == Or(Or(Get(output_data, "results"),
                                     Get(output_data, "prompts")),
                                  Get(output_data, "prompt_slug_list"))
         IN  IF list_candidate.t = "list"
             THEN Return(list_candidate.items)
             ELSE IF {"prompt", "slug"} \subseteq DOMAIN output_data.f
             THEN Return(<<output_data>>)
             ELSE Fail
    ELSE Fail

\* agents/image_prompt_openai.py:177-187, from item k on; validated_list holds
\* the items accepted so far; a slug that is not a string has no lower()
RECURSIVE ValidateItems(_, _, _)
ValidateItems(items, k, validated_list) ==
    IF k > Len(items)
    THEN Return(validated_list)
    ELSE LET item == items[k] IN
         IF item.t = "dict" /\ {"prompt", "slug"} \subseteq DOMAIN item.f
         THEN IF item.f["slug"].t # "str"
              THEN Fail
              ELSE ValidateItems(items, k + 1,
                     Append(validated_list,
                            JDict(Merge(item.f,
                                Attr("slug",
                                     JStr(CleanSlug_prompt_agent(
                                              item.f["slug"].s,
                                              Len(validated_list))))))))
         ELSE ValidateItems(items, k + 1, validated_list)

\* agents/image_prompt_openai.py:150-201
generate_image_prompts_and_slugs(output_data, num_prompts) ==
    LET raw == prompt_slug_list_raw(output_data) IN
    IF ~raw.ok
    THEN Fail
    ELSE LET validated == ValidateItems(raw.items, 1, <<>>) IN
         IF ~validated.ok
         THEN Fail
         ELSE LET final_prompts_slugs == Take(validated.items, num_prompts)
              IN  IF final_prompts_slugs = <<>> THEN Fail
                                                ELSE Return(final_prompts_slugs)

\* agents/image_slug_openai.py:69-95, for n image prompts
generate_slugs_from_prompts(output_data, n) ==
    LET slug_list ==
            IF output_data.t = "list" THEN output_data
            ELSE IF output_data.t = "dict"
            THEN Or(Get(output_data, "slugs"), Get(output_data, "slug_list"))
            ELSE JInvalid
    IN  IF slug_list.t = "list" /\ AllStr(slug_list.items)
        THEN LET have == Len(slug_list.items)
                 padded == [k \in 1..(IF have < n THEN n ELSE have) |->
                              IF k <= have THEN slug_list.items[k].s
                                           ELSE ImageDefault(k - 1)]
                 cut == Take(padded, n)
             IN  Return([k \in 1..Len(cut) |->
                            CleanSlug_slug_agent(cut[k], k - 1)])
        ELSE Fail

\* agents/metadata_openai.py:78-94
execute_metadata(response) ==
    IF /\ response.t = "dict"
       /\ {"metaTitle", "metaDescription", "keywords"} \subseteq DOMAIN response.f
       /\ response.f["keywords"].t = "list"
    THEN Return(<<response>>)
    ELSE Fail

\* number of prompts the image prompt agent asks for by default
DefaultNumPrompts == 3

\* what the bundled agent of a structured stage returns for a parsed model
\* output, as a value of the workflow
BundledAgent(stage, output_data) ==
    IF stage = "metadata"
    THEN [ok |-> execute_metadata(output_data).ok,
          out |-> [type |-> "dict", empty |-> FALSE, val |-> "D1"]]
    ELSE [ok |-> generate_image_prompts_and_slugs(output_data,
                                                   DefaultNumPrompts).ok,
          out |-> [type |-> "list", empty |-> FALSE, val |-> "L1"]]

(***************************************************************************)
(* Decisions of the workflow                                               *)
(***************************************************************************)
\* variant: only postId is checked
PreconditionFails_PostOnly(post_id, website_id) == post_id = ""

\* base_service.py:72  "if not post_id or not website_id"
PreconditionFails(post_id, website_id) == post_id = "" \/ website_id = ""

\* variant: the status left for the except block is STARTED
DefaultStatus_Started(stage) == StatusSTARTED(stage)

\* base_service.py:76 / research_service.py:39: the status the except block
\* writes unless the workflow reached the COMPLETE step
DefaultStatus(stage) == StatusFAILED(stage)

\* get_post returns an item: the read succeeded and the item exists
PostFound(ok, post_id, ps) == ok /\ post_id \in DOMAIN ps

\* variant: the result of the settings read is not checked
SettingsFound_Always(ok, website_id, st) == TRUE

\* get_website_settings returns an item
SettingsFound(ok, website_id, st) == ok /\ website_id \in st

\* variant: the websiteId of the request is not compared with the post's
ValidatePost_NoOwnership(stage, post_id, website_id, post_item) ==
    IF Missing(post_item, WEBSITE_ID)
    THEN ServiceError("Post item is missing websiteId attribute.", 500,
                      service_name(stage))
    ELSE IF stage = "research" /\ Missing(post_item, BLOG_TITLE)
    THEN ServiceError("Post item is missing blogTitle attribute.", 500,
                      service_name(stage))
    ELSE NoError

\* the validation of the loaded post: the error it raises, or NoError
ValidatePost(stage, post_id, website_id, post_item) ==
    IF Missing(post_item, WEBSITE_ID)
    THEN ServiceError("Post item is missing websiteId attribute.", 500,
                      service_name(stage))
    ELSE IF stage = "research" /\ Missing(post_item, BLOG_TITLE)
    THEN ServiceError("Post item is missing blogTitle attribute.", 500,
                      service_name(stage))
    ELSE IF website_id # post_item[WEBSITE_ID]
    THEN ServiceError("Access denied: Website ID mismatch.", 403,
                      service_name(stage))
    ELSE NoError

\* variant: every stage raises ServiceError with the default arguments
MissingUpstreamError_Defaults(stage) == ServiceErrorDefaults("...")

\* the error a stage's _call_agent raises when its upstream locator is absent
MissingUpstreamError(stage) ==
    IF stage = "metadata"
    THEN ServiceErrorDefaults("...")
    ELSE ServiceError("Missing upstream locator in post item.", 400,
                      service_name(stage))

\* the error a stage's _call_agent raises when the upstream blob read fails
UpstreamReadError(stage) ==
    IF stage = "metadata"
    THEN ServiceErrorDefaults("...")
    ELSE ServiceError("Failed to download upstream article.", 500,
                      service_name(stage))

\* the check on the value the agent returned: TRUE when it is refused
\*   research_service.py:84      "if not raw_article_text"
\*   image_prompt_service.py:69  "if not prompt_list"
\*   base_service.py:121         "if agent_output is None"
AgentOutputRefused(stage, out) ==
    IF stage \in {"research", "image_prompt"} THEN Falsy(out)
                                              ELSE out.type = "none"

\* the type check at the head of each _save_agent_output; research hands the
\* text to save_text_file, whose content.encode raises on a non-string
SaveTypeOk(stage, out) ==
    CASE stage \in {"research", "refine", "markdown"} -> out.type = "str"
      [] stage = "image_prompt" -> out.type = "list"
      [] stage = "metadata" -> out.type = "dict"

\* the except block: a ServiceError is re-raised, anything else is wrapped
WrapError(stage, exc) ==
    IF exc.isService
    THEN exc
    ELSE ServiceError("An unexpected error occurred during processing.", 500,
                      service_name(stage))

\* lambda_handlers/api_handler.py:89-91: what the caller is sent for a
\* ServiceError
format_response(se) == [statusCode |-> se.status_code, error |-> se.message]

\* _update_status, accepted by the store
WriteStatus(ps, stage, post_id, status, now) ==
    IF stage = "research"
    THEN update_post_status(ps, post_id, status, now)
    ELSE update_post_item(ps, post_id, Attr(POST_STATUS, status), now)

\* variant: the locator is written under the key the stage reads from
WriteUri_UpstreamKey(ps, stage, post_id, s3_uri, now) ==
    update_post_item(ps, post_id, Attr(upstream_key(stage), s3_uri), now)

\* _update_db_uri, accepted by the store
WriteUri(ps, stage, post_id, s3_uri, now) ==
    IF stage = "research"
    THEN update_post_research_uri(ps, post_id, s3_uri, now)
    ELSE update_post_item(ps, post_id, Attr(output_uri_db_key(stage), s3_uri), now)

(***************************************************************************)
(* State                                                                   *)
(***************************************************************************)
NoItem == [postId |-> ""]
NoResult == [returned |-> FALSE, postId |-> "", key |-> "", uri |-> <<>>]

\* the locals of an invocation: now is the value int(time.time()) returned to
\* the update_post_item call in progress, stamped tells that it was read;
\* after is the set of invocations that had returned when this one was called
IdleInv ==
    [pc |-> "idle", stage |-> "research", post_id |-> "", website_id |-> "",
     post_item |-> NoItem, agent_output |-> NoOutput, s3_uri |-> <<>>,
     current_status |-> "", exc |-> NoError, err |-> NoError,
     result |-> NoResult, log |-> <<>>, existed |-> FALSE,
     now |-> 0, stamped |-> FALSE, after |-> {}, raw |-> ""]

\* a Post as created outside the pipeline, and after the first stages ran
FreshPost == [postId |-> "P1", websiteId |-> "W1", blogTitle |-> "X"]

ResearchedPost ==
    Merge(FreshPost,
          [postStatus |-> "RESEARCH_COMPLETE",
           researchArticleUri |-> S3Uri(bucket_name, OutputKey("research", "W1", "P1")),
           updateTimestamp |-> 0])

RefinedPost ==
    Merge(ResearchedPost,
          [postStatus |-> "REFINE_COMPLETE",
           refinedArticleUri |-> S3Uri(bucket_name, OutputKey("refine", "W1", "P1"))])

NoPosts == [p \in {} |-> NoItem]
NoBlobs == [k \in {} |-> ""]

ResearchBlob == [k \in {OutputKey("research", "W1", "P1")} |-> "R0"]
RefinedBlob == [k \in {OutputKey("refine", "W1", "P1")} |-> "F0"]

\* no Post attribute has been written by an invocation yet
NoWrites == [p \in PostIds |-> [k \in {} |-> [by |-> "", val |-> ""]]]

\* no pure function is being evaluated
FnIdle == [op |-> "none"]

Init ==
    /\ \/ posts = NoPosts /\ blobs = NoBlobs
       \/ posts = [p \in {"P1"} |-> FreshPost] /\ blobs = NoBlobs
       \/ posts = [p \in {"P1"} |-> ResearchedPost] /\ blobs = ResearchBlob
       \/ posts = [p \in {"P1"} |-> RefinedPost]
          /\ blobs = Merge(ResearchBlob, RefinedBlob)
    /\ settings \in {{}, {"W1"}}
    /\ clock = 0
    /\ inv = [i \in Inv |-> IdleInv]
    /\ lastw = NoWrites
    /\ fn = FnIdle

\* two invocations running side by side on a Post that went through the
\* research and refine stages
InitConc ==
    /\ posts = [p \in {"P1"} |-> RefinedPost]
    /\ blobs = Merge(ResearchBlob, RefinedBlob)
    /\ settings = {"W1"}
    /\ clock = 0
    /\ inv = [i \in ConcInv |-> IdleInv]
    /\ lastw = NoWrites
    /\ fn = FnIdle

(***************************************************************************)
(* Steps of an invocation                                                  *)
(***************************************************************************)
Logged(r, op, arg, ok) ==
    [r EXCEPT !.log = Append(@, [op |-> op, arg |-> arg, ok |-> ok])]

Raise(r, e) == [r EXCEPT !.pc = "except", !.exc = e, !.stamped = FALSE]

\* the last applied write of each attribute in attributes is now by invocation i
Applied(lw, post_id, attributes, i) ==
    [lw EXCEPT ![post_id] =
        Merge(@, [k \in DOMAIN attributes |->
                     [by |-> i, val |-> attributes[k]]])]

\* the next step of the invocation is an update_post_item call
NeedsStamp(r) ==
    \/ r.pc \in {"update_started", "update_uri", "complete", "except"}
    \/ /\ r.pc = "save"
       /\ InlineStage(r.stage)
       /\ SaveTypeOk(r.stage, r.agent_output)

\* the wall clock advances between calls
Tick ==
    /\ clock < MaxClock
    /\ clock' = clock + 1
    /\ UNCHANGED <<posts, settings, blobs, inv, lastw, fn>>

\* update_post_item reads int(time.time()) before it issues update_item
ReadClock(i) ==
    /\ NeedsStamp(inv[i])
    /\ ~inv[i].stamped
    /\ inv' = [inv EXCEPT ![i] = [@ EXCEPT !.now = clock, !.stamped = TRUE]]
    /\ UNCHANGED <<posts, settings, blobs, clock, lastw, fn>>

\* process_request(event_data) / process_research_request(website_id, post_id)
\* is called with identifiers from the given sets; the research service is
\* called with the identifiers its caller has validated
Call(i, stages, post_ids, website_ids) ==
    /\ inv[i].pc = "idle"
    /\ \E stage \in stages, post_id \in post_ids, website_id \in website_ids :
          /\ stage = "research" => post_id # "" /\ website_id # ""
          /\ LET r == [inv[i] EXCEPT !.stage = stage, !.post_id = post_id,
                                     !.website_id = website_id,
                                     !.existed = post_id \in DOMAIN posts,
                                     !.after = {j \in DOMAIN inv :
                                                  inv[j].pc = "done"}]
             IN  IF stage # "research" /\ PreconditionFails(post_id, website_id)
                 THEN inv' = [inv EXCEPT ![i] =
                        [r EXCEPT !.pc = "done",
                                  !.err = ServiceError(
                                      "Missing required input data for service.",
                                      400, service_name(stage))]]
                 ELSE inv' = [inv EXCEPT ![i] =
                        [r EXCEPT !.pc = "update_started",
                                  !.current_status = DefaultStatus(stage)]]
    /\ UNCHANGED <<posts, settings, blobs, clock, lastw, fn>>

\* a request with any identifiers, missing ones included
Begin(i) == Call(i, Stages, PostIds \cup {""}, WebsiteIds \cup {""})

\* a request of the concurrent runs: the owner of the Post asks for one of
\* two stages, one that writes a blob and one that writes the record inline
BeginConc(i) == Call(i, ConcStages, {"P1"}, {"W1"})

\* a status write: the store applies or rejects update_item
StatusWrite(i, status, ok) ==
    LET r == inv[i] IN
    /\ posts' = IF ok
                THEN WriteStatus(posts, r.stage, r.post_id, status, r.now)
                ELSE posts
    /\ lastw' = IF ok
                THEN Applied(lastw, r.post_id, Attr(POST_STATUS, status), i)
                ELSE lastw

\* variant: a rejected STARTED write raises
UpdateStarted_Fatal(i) ==
    /\ inv[i].pc = "update_started"
    /\ inv[i].stamped
    /\ \E ok \in BOOLEAN :
          LET r == inv[i]
              status == StatusSTARTED(r.stage)
              l == [Logged(r, "update_status", status, ok)
                      EXCEPT !.stamped = FALSE]
          IN  /\ StatusWrite(i, status, ok)
              /\ inv' = [inv EXCEPT ![i] =
                     IF ok
                     THEN [l EXCEPT !.pc = "get_post"]
                     ELSE Raise(l, OtherException("status write failed"))]
    /\ UNCHANGED <<settings, blobs, clock, fn>>

\* _update_status(post_id, "{prefix}_STARTED")
UpdateStarted(i) ==
    /\ inv[i].pc = "update_started"
    /\ inv[i].stamped
    /\ \E ok \in BOOLEAN :
          LET r == inv[i]
              status == StatusSTARTED(r.stage)
          IN  /\ StatusWrite(i, status, ok)
              /\ inv' = [inv EXCEPT ![i] =
                     [Logged(r, "update_status", status, ok)
                        EXCEPT !.pc = "get_post", !.stamped = FALSE]]
    /\ UNCHANGED <<settings, blobs, clock, fn>>

\* get_post and the validation of the loaded item
GetPost(i) ==
    /\ inv[i].pc = "get_post"
    /\ \E ok \in BOOLEAN :
          LET r == inv[i]
              found == PostFound(ok, r.post_id, posts)
              l == Logged(r, "get_post", r.post_id, found)
          IN  IF ~found
              THEN inv' = [inv EXCEPT ![i] =
                      Raise(l, ServiceError("Post not found.", 404,
                                            service_name(r.stage)))]
              ELSE LET item == posts[r.post_id]
                       e == ValidatePost(r.stage, r.post_id, r.website_id, item)
                       li == [l EXCEPT !.post_item = item]
                   IN  IF e # NoError
                       THEN inv' = [inv EXCEPT ![i] = Raise(li, e)]
                       ELSE inv' = [inv EXCEPT ![i] =
                               [li EXCEPT !.pc = "get_settings"]]
    /\ UNCHANGED <<posts, settings, blobs, clock, lastw, fn>>

\* get_website_settings(website_id)
GetSettings(i) ==
    /\ inv[i].pc = "get_settings"
    /\ \E ok \in BOOLEAN :
          LET r == inv[i]
              found == SettingsFound(ok, r.website_id, settings)
              l == Logged(r, "get_settings", r.website_id, found)
          IN  IF ~found
              THEN inv' = [inv EXCEPT ![i] =
                      Raise(l, ServiceError("Website settings not found.", 404,
                                            service_name(r.stage)))]
              ELSE inv' = [inv EXCEPT ![i] = [l EXCEPT !.pc = "select_agent"]]
    /\ UNCHANGED <<posts, settings, blobs, clock, lastw, fn>>

\* _select_agent, then the head of _call_agent: the upstream locator is read
\* from the loaded post item (research has no upstream artifact)
SelectAgent(i) ==
    /\ inv[i].pc = "select_agent"
    /\ LET r == inv[i]
           l == Logged(r, "select_agent", r.stage, TRUE)
       IN  IF ~HasUpstream(r.stage)
           THEN inv' = [inv EXCEPT ![i] = [l EXCEPT !.pc = "agent"]]
           ELSE IF Missing(r.post_item, upstream_key(r.stage))
           THEN inv' = [inv EXCEPT ![i] = Raise(l, MissingUpstreamError(r.stage))]
           ELSE inv' = [inv EXCEPT ![i] = [l EXCEPT !.pc = "read_upstream"]]
    /\ UNCHANGED <<posts, settings, blobs, clock, lastw, fn>>

\* s3_helper.read_text_file(upstream locator) inside _call_agent
ReadUpstream(i) ==
    /\ inv[i].pc = "read_upstream"
    /\ \E ok \in BOOLEAN :
          LET r == inv[i]
              uri == r.post_item[upstream_key(r.stage)]
              read == ValidUri(uri) /\ ok /\ UriKey(uri) \in DOMAIN blobs
              l == IF ValidUri(uri)
                   THEN Logged(r, "s3_read", upstream_key(r.stage), read)
                   ELSE r
          IN  IF ~read
              THEN inv' = [inv EXCEPT ![i] = Raise(l, UpstreamReadError(r.stage))]
              ELSE inv' = [inv EXCEPT ![i] = [l EXCEPT !.pc = "agent"]]
    /\ UNCHANGED <<posts, settings, blobs, clock, lastw, fn>>

\* the value the agent returned is checked and handed to the next step
AgentReturned(r, out) ==
    LET l == [Logged(r, "agent", r.stage, TRUE) EXCEPT !.agent_output = out]
    IN  IF AgentOutputRefused(r.stage, out)
        THEN Raise(l, ServiceError("Agent returned None or empty output.",
                                   500, service_name(r.stage)))
        ELSE [l EXCEPT !.pc = IF r.stage = "image_prompt"
                              THEN "slug_agent" ELSE "save"]

\* variant: the failure carries the model text as its message
AgentRaised_Echo(r, message) ==
    Raise(Logged(r, "agent", r.stage, FALSE),
          ServiceError(r.raw, 500, service_name(r.stage)))

AgentRaised(r, message) ==
    Raise(Logged(r, "agent", r.stage, FALSE), OtherException(message))

\* the agent call and the check of what it returned; the callable returns a
\* value of values, the bundled agent is given a model text of texts
Agent(i, values, texts) ==
    /\ inv[i].pc = "agent"
    /\ LET r == inv[i] IN
       IF ~AgentCallBinds(r.stage)
       THEN \* the call does not bind the agent's parameters: TypeError
            inv' = [inv EXCEPT ![i] = AgentRaised(r, "TypeError")]
       ELSE \/ \* the agent raises
               inv' = [inv EXCEPT ![i] = AgentRaised(r, "agent raised")]
            \/ \* the callable returns some value
               \E out \in values :
                  inv' = [inv EXCEPT ![i] = AgentReturned(r, out)]
            \/ \* the bundled agent of a structured stage parses the model text
               /\ InlineStage(r.stage)
               /\ \E text \in texts :
                     LET rt == [r EXCEPT !.raw = text]
                         res == BundledAgent(r.stage, json_loads(text))
                     IN  inv' = [inv EXCEPT ![i] =
                            IF res.ok
                            THEN AgentReturned(rt, res.out)
                            ELSE AgentRaised(rt, "ValueError")]
    /\ UNCHANGED <<posts, settings, blobs, clock, lastw, fn>>

CallAgent(i) == Agent(i, AgentValues, ModelTexts)

\* the agent call in the concurrent runs
CallAgentConc(i) == Agent(i, ConcAgentValues, {"not json"})

\* image prompt stage: generate_slugs_from_prompts parses the model text into
\* one slug per prompt or raises; the prompts and slugs are combined into a
\* list of pairs
CallSlugAgent(i) ==
    /\ inv[i].pc = "slug_agent"
    /\ LET r == inv[i] IN
       \/ inv' = [inv EXCEPT ![i] =
                    Raise(Logged(r, "slug_agent", r.stage, FALSE),
                          OtherException("slug agent raised"))]
       \/ \E text \in ModelTexts :
             LET rt == [r EXCEPT !.raw = text] IN
             inv' = [inv EXCEPT ![i] =
                IF generate_slugs_from_prompts(json_loads(text), 1).ok
                THEN [Logged(rt, "slug_agent", r.stage, TRUE)
                        EXCEPT !.agent_output =
                                 [type |-> "list", empty |-> FALSE,
                                  val |-> r.agent_output.val],
                               !.pc = "save"]
                ELSE Raise(Logged(rt, "slug_agent", r.stage, FALSE),
                           OtherException("ValueError"))]
    /\ UNCHANGED <<posts, settings, blobs, clock, lastw, fn>>

\* variant: a missing locator is reported as a client error
SaveError_BadRequest(stage) ==
    ServiceError("Failed to save agent output to S3.", 400, service_name(stage))

\* the error raised when the persistence step returned no locator
\*   base_service.py:130-131, research_service.py:94-95
SaveError(stage) ==
    IF stage = "research"
    THEN ServiceError("Failed to save generated article to S3.", 500,
                      service_name(stage))
    ELSE ServiceError("Failed to save agent output to S3.", 500,
                      service_name(stage))

SaveFailed(r) == Raise(r, SaveError(r.stage))

\* _save_agent_output: a blob write for the text stages, a record write for
\* the inline stages (whose _update_db_uri override then writes nothing)
SaveOutput(i) ==
    /\ inv[i].pc = "save"
    /\ NeedsStamp(inv[i]) => inv[i].stamped
    /\ LET r == Logged(inv[i], "save", inv[i].stage, TRUE)
           out == r.agent_output
           key == OutputKey(r.stage, r.website_id, r.post_id)
       IN
       IF ~SaveTypeOk(r.stage, out)
       THEN /\ inv' = [inv EXCEPT ![i] = SaveFailed(r)]
            /\ UNCHANGED <<posts, blobs, lastw>>
       ELSE IF InlineStage(r.stage)
       THEN \E ok \in BOOLEAN :
               LET attrs == Attr(output_uri_db_key(r.stage), out.val) IN
               /\ posts' = IF ok
                           THEN update_post_item(posts, r.post_id, attrs, r.now)
                           ELSE posts
               /\ lastw' = IF ok THEN Applied(lastw, r.post_id, attrs, i)
                                 ELSE lastw
               /\ UNCHANGED blobs
               /\ LET l == Logged(r, "update_output",
                                  output_uri_db_key(r.stage), ok)
                  IN  inv' = [inv EXCEPT ![i] =
                         IF ok
                         THEN [l EXCEPT !.s3_uri = DynamoDB_Updated,
                                        !.pc = "complete",
                                        !.stamped = FALSE]
                         ELSE SaveFailed(l)]
       ELSE \E ok \in BOOLEAN :
               LET l == Logged(r, "s3_write", output_filename(r.stage), ok)
               IN  /\ blobs' = IF ok
                               THEN Merge(blobs, Attr(key, out.val))
                               ELSE blobs
                   /\ UNCHANGED <<posts, lastw>>
                   /\ inv' = [inv EXCEPT ![i] =
                         IF ok
                         THEN [l EXCEPT !.s3_uri = S3Uri(bucket_name, key),
                                        !.pc = "update_uri"]
                         ELSE SaveFailed(l)]
    /\ UNCHANGED <<settings, clock, fn>>

\* variant: a rejected locator write raises
UpdateDbUri_Fatal(i) ==
    /\ inv[i].pc = "update_uri"
    /\ inv[i].stamped
    /\ \E ok \in BOOLEAN :
          LET r == inv[i]
              l == [Logged(r, "update_output", output_uri_db_key(r.stage), ok)
                      EXCEPT !.stamped = FALSE]
          IN
          /\ posts' = IF ok
                      THEN WriteUri(posts, r.stage, r.post_id, r.s3_uri, r.now)
                      ELSE posts
          /\ lastw' = IF ok
                      THEN Applied(lastw, r.post_id,
                                   Attr(output_uri_db_key(r.stage), r.s3_uri), i)
                      ELSE lastw
          /\ inv' = [inv EXCEPT ![i] =
                 IF ok
                 THEN [l EXCEPT !.pc = "complete"]
                 ELSE Raise(l, OtherException("locator write failed"))]
    /\ UNCHANGED <<settings, blobs, clock, fn>>

\* _update_db_uri / update_post_research_uri: the locator is written under
\* the stage's output key; a rejected write is logged and ignored
UpdateDbUri(i) ==
    /\ inv[i].pc = "update_uri"
    /\ inv[i].stamped
    /\ \E ok \in BOOLEAN :
          LET r == inv[i] IN
          /\ posts' = IF ok
                      THEN WriteUri(posts, r.stage, r.post_id, r.s3_uri, r.now)
                      ELSE posts
          /\ lastw' = IF ok
                      THEN Applied(lastw, r.post_id,
                                   Attr(output_uri_db_key(r.stage), r.s3_uri), i)
                      ELSE lastw
          /\ inv' = [inv EXCEPT ![i] =
                 [Logged(r, "update_output", output_uri_db_key(r.stage), ok)
                    EXCEPT !.pc = "complete", !.stamped = FALSE]]
    /\ UNCHANGED <<settings, blobs, clock, fn>>

\* current_status becomes COMPLETE, is written, and the result is returned
UpdateComplete(i) ==
    /\ inv[i].pc = "complete"
    /\ inv[i].stamped
    /\ \E ok \in BOOLEAN :
          LET r == inv[i]
              status == StatusCOMPLETE(r.stage)
          IN  /\ StatusWrite(i, status, ok)
              /\ inv' = [inv EXCEPT ![i] =
                     [Logged(r, "update_status", status, ok)
                        EXCEPT !.pc = "done",
                               !.stamped = FALSE,
                               !.current_status = status,
                               !.result = [returned |-> TRUE,
                                           postId |-> r.post_id,
                                           key |-> output_uri_db_key(r.stage),
                                           uri |-> r.s3_uri]]]
    /\ UNCHANGED <<settings, blobs, clock, fn>>

\* the except block: current_status is written, then the error is re-raised
\* or wrapped
ExceptBlock(i) ==
    /\ inv[i].pc = "except"
    /\ inv[i].stamped
    /\ \E ok \in BOOLEAN :
          LET r == inv[i] IN
          /\ StatusWrite(i, r.current_status, ok)
          /\ inv' = [inv EXCEPT ![i] =
                 [Logged(r, "update_status", r.current_status, ok)
                    EXCEPT !.pc = "done",
                           !.stamped = FALSE,
                           !.err = WrapError(r.stage, r.exc)]]
    /\ UNCHANGED <<settings, blobs, clock, fn>>

Next ==
    \/ Tick
    \/ \E i \in DOMAIN inv : ReadClock(i)
    \/ \E i \in DOMAIN inv : Begin(i)
    \/ \E i \in DOMAIN inv : UpdateStarted(i)
    \/ \E i \in DOMAIN inv : GetPost(i)
    \/ \E i \in DOMAIN inv : GetSettings(i)
    \/ \E i \in DOMAIN inv : SelectAgent(i)
    \/ \E i \in DOMAIN inv : ReadUpstream(i)
    \/ \E i \in DOMAIN inv : CallAgent(i)
    \/ \E i \in DOMAIN inv : CallSlugAgent(i)
    \/ \E i \in DOMAIN inv : SaveOutput(i)
    \/ \E i \in DOMAIN inv : UpdateDbUri(i)
    \/ \E i \in DOMAIN inv : UpdateComplete(i)
    \/ \E i \in DOMAIN inv : ExceptBlock(i)

\* one invocation at a time
Spec == Init /\ [][Next]_vars

\* a step of invocation i after its entry: a collaborator call that returns
\* or raises, or the handling of what it returned
InvStep(i) ==
    \/ ReadClock(i)
    \/ UpdateStarted(i)
    \/ GetPost(i)
    \/ GetSettings(i)
    \/ SelectAgent(i)
    \/ ReadUpstream(i)
    \/ CallAgent(i)
    \/ CallSlugAgent(i)
    \/ SaveOutput(i)
    \/ UpdateDbUri(i)
    \/ UpdateComplete(i)
    \/ ExceptBlock(i)

\* process_request is straight-line code: once entered, an invocation whose
\* collaborator calls all return takes its next step
Fairness == \A i \in Inv : WF_vars(InvStep(i))

SpecLive == Spec /\ Fairness

NextConc ==
    \/ Tick
    \/ \E i \in DOMAIN inv : ReadClock(i)
    \/ \E i \in DOMAIN inv : BeginConc(i)
    \/ \E i \in DOMAIN inv : UpdateStarted(i)
    \/ \E i \in DOMAIN inv : GetPost(i)
    \/ \E i \in DOMAIN inv : GetSettings(i)
    \/ \E i \in DOMAIN inv : SelectAgent(i)
    \/ \E i \in DOMAIN inv : ReadUpstream(i)
    \/ \E i \in DOMAIN inv : CallAgentConc(i)
    \/ \E i \in DOMAIN inv : SaveOutput(i)
    \/ \E i \in DOMAIN inv : UpdateDbUri(i)
    \/ \E i \in DOMAIN inv : UpdateComplete(i)
    \/ \E i \in DOMAIN inv : ExceptBlock(i)

\* two invocations on the same Post whose steps interleave
SpecConc == InitConc /\ [][NextConc]_vars

(***************************************************************************)
(* The agents' pure functions, applied to drawn inputs                     *)
(***************************************************************************)
ExampleTitle == <<"A", " ", "B", "e", "a", "u", "t", "i", "f", "u", "l",
                  " ", "D", "a", "y", "!", "!">>
ExampleSlug == <<"a", "-", "b", "e", "a", "u", "t", "i", "f", "u", "l",
                 "-", "d", "a", "y">>

\* the drawn slugs; their characters are a lower-case and an upper-case
\* letter, a digit, the hyphen, a space, a punctuation mark and a non-ASCII
\* letter
SlugInputs ==
    LET SlugChars == {"a", "A", "1", "-", " ", "!", "é"} IN
    UNION {[1..n -> SlugChars] : n \in 0..MaxSlugLen}
        \cup {ExampleTitle, ExampleSlug}

\* a well-formed prompt/slug item of the model output
Pair(prompt, slug) == JDict([prompt |-> JStr(prompt), slug |-> slug])

\* the slug the slug agent returns for the model's slug at index i of a list
\* of i + 1 slugs
SlugAt_slug_agent(slug, i) ==
    LET doc == JList([k \in 1..(i + 1) |->
                        IF k <= i THEN JStr(<<"x">>) ELSE JStr(slug)])
        res == generate_slugs_from_prompts(doc, i + 1)
    IN  IF res.ok THEN Slug(res.items[i + 1]) ELSE NoSlug

\* the slug the prompt agent returns for the model's item at index i of a
\* list whose first skipped items are not prompt/slug items
SlugAt_prompt_agent(slug, i, skipped) ==
    LET doc == JList([k \in 1..(i + 1) |->
                        IF k <= skipped THEN JStr(<<"j">>)
                        ELSE IF k <= i THEN Pair(<<"p">>, JStr(<<"x">>))
                        ELSE Pair(<<"p">>, JStr(slug))])
        res == generate_image_prompts_and_slugs(doc, i + 1)
    IN  IF res.ok THEN Slug(res.items[Len(res.items)].f["slug"].s)
                  ELSE NoSlug

SlugAt(impl, slug, i, skipped) ==
    CASE impl = "slug_agent" -> SlugAt_slug_agent(slug, i)
      [] impl = "prompt_agent" -> SlugAt_prompt_agent(slug, i, skipped)
      [] impl = "s3_helper" -> CleanSlug_s3_helper(slug)

SlugCalls ==
    {c \in {[op |-> "slug", impl |-> impl, slug |-> slug, i |-> i,
             skipped |-> skipped, pc |-> "in", out |-> NoSlug,
             again |-> NoSlug] :
               impl \in {"slug_agent", "prompt_agent", "s3_helper"},
               slug \in SlugInputs, i \in 0..MaxIndex,
               skipped \in 0..1} :
        /\ c.skipped <= c.i
        /\ c.impl # "prompt_agent" => c.skipped = 0}

\* kinds of element of a model output list
PromptKinds == {"str", "num"}
PairKinds == {"pair", "junk", "badslug", "noslug", "badprompt"}

\* element k of a model output, of the given kind
Element(kind, k) ==
    CASE kind = "str" -> JStr(<<"p">> \o str(k))
      [] kind = "num" -> JNum(k)
      [] kind = "pair" -> Pair(<<"p">> \o str(k), JStr(<<"s">> \o str(k)))
      [] kind = "junk" -> JStr(<<"j">> \o str(k))
      [] kind = "badslug" -> Pair(<<"p">> \o str(k), JNum(k))
      [] kind = "noslug" -> JDict([prompt |-> JStr(<<"p">> \o str(k))])
      [] kind = "badprompt" ->
            JDict([prompt |-> JNum(k), slug |-> JStr(<<"s">> \o str(k))])

Elements(kinds) == [k \in 1..Len(kinds) |-> Element(kinds[k], k)]


\* the keys a function probes, in the order of its `or` chain
CandidateKeys(impl) ==
    CASE impl = "prompts" -> <<"prompts", "image_prompts", "imagePrompts">>
      [] impl = "pairs" -> <<"results", "prompts", "prompt_slug_list">>
      [] impl = "slugs" -> <<"slugs", "slug_list">>

\* the parsed model output: the list of elements itself or a dict holding it
\* under a key, and for a decoy the first probed key holding a value that is
\* not a list
ModelOutput(impl, wrapper, decoy, kinds) ==
    LET items == Elements(kinds)
        doc == IF wrapper = "list"
               THEN JList(items)
               ELSE JDict(Attr(wrapper, JList(items)))
        DecoyValue ==
            CASE decoy = "str" -> JStr(<<"t">>)
              [] decoy = "num" -> JNum(7)
              [] decoy = "dict" -> JDict(Attr("k", JNum(1)))
              [] decoy = "empty" -> JStr(<<>>)
    IN  IF decoy = "none"
        THEN doc
        ELSE JDict(Merge(doc.f, Attr(CandidateKeys(impl)[1], DecoyValue)))

KindLists(kinds) == UNION {[1..n -> kinds] : n \in 0..MaxItems}

\* the kind of element a function is after
ValidKind(impl) == IF impl = "pairs" THEN "pair" ELSE "str"

\* lists of elements of any kind under one key or at the top level, and
\* lists of valid elements under a later key with a decoy under the first
NormalizeInputs(impl, kindset, wrappers) ==
    {[op |-> "normalize", impl |-> impl, kinds |-> kinds,
      wrapper |-> wrapper, decoy |-> "none", n |-> n, pc |-> "in",
      res |-> Fail] :
        kinds \in KindLists(kindset), wrapper \in wrappers,
        n \in 1..MaxPrompts}
    \cup
    {[op |-> "normalize", impl |-> impl, kinds |-> kinds,
      wrapper |-> wrapper, decoy |-> decoy, n |-> n, pc |-> "in",
      res |-> Fail] :
        kinds \in KindLists({ValidKind(impl)}),
        wrapper \in wrappers \ {"list", CandidateKeys(impl)[1]},
        decoy \in {"str", "num", "dict", "empty"}, n \in 1..MaxPrompts}

NormalizeCalls ==
    NormalizeInputs("prompts", PromptKinds,
                    {"list", "prompts", "image_prompts", "imagePrompts"})
        \cup NormalizeInputs("pairs", PairKinds,
                             {"list", "results", "prompts",
                              "prompt_slug_list"})
        \cup NormalizeInputs("slugs", PromptKinds,
                             {"list", "slugs", "slug_list"})

\* utils/dynamodb_helper.py:98, with key.upper() on the drawn names
is_reserved(key) ==
    LET upper == CASE key = "postStatus" -> "POSTSTATUS"
                   [] key = "metadata" -> "METADATA"
                   [] key = "status" -> "STATUS"
                   [] key = "Name" -> "NAME"
                   [] key = UPDATE_TIMESTAMP -> "UPDATETIMESTAMP"
    IN  upper \in {"STATUS", "DATA", "KEY", "VALUE", "NAME"}

\* the keys of attributes_to_update in insertion order, updateTimestamp
\* added at line 87
KeysWithTimestamp(keys) ==
    IF \E k \in 1..Len(keys) : keys[k] = UPDATE_TIMESTAMP
    THEN keys
    ELSE Append(keys, UPDATE_TIMESTAMP)

\* lines 94-108: update_expression_parts; one "name = value" part of the
\* SET expression for the key at index i, the name being the placeholder
\* #k{i} or the key itself
update_expression_parts(keys) ==
    LET all == KeysWithTimestamp(keys) IN
    [k \in 1..Len(all) |->
        [placeholder |-> is_reserved(all[k]), i |-> k - 1, key |-> all[k]]]

\* lines 94-103: expression_attribute_names, from placeholder index to key
expression_attribute_names(keys) ==
    LET all == KeysWithTimestamp(keys)
        used == {k \in 1..Len(all) : is_reserved(all[k])}
    IN  [i \in {k - 1 : k \in used} |-> all[i + 1]]

\* no ExpressionAttributeNames in a request
NoNames == [i \in {} |-> ""]

\* lines 111-116: the request; expression_attribute_names is not put into it
update_kwargs(keys) ==
    [UpdateExpression |-> update_expression_parts(keys),
     ExpressionAttributeNames |-> NoNames]

\* the Record Store applies a request when every name placeholder of the
\* expression is defined in ExpressionAttributeNames and no reserved word
\* stands in the expression itself; otherwise it raises a validation error
StoreApplies(request) ==
    \A k \in 1..Len(request.UpdateExpression) :
        LET part == request.UpdateExpression[k] IN
        IF part.placeholder
        THEN part.i \in DOMAIN request.ExpressionAttributeNames
        ELSE ~is_reserved(part.key)

\* attribute maps whose keys are sequences of distinct attribute names
UpdateCalls ==
    LET AttrNames == {"postStatus", "metadata", "status", "Name"}
        KeyLists ==
            {keys \in UNION {[1..n -> AttrNames] : n \in 1..MaxAttrs} :
                \A j, k \in 1..Len(keys) : j # k => keys[j] # keys[k]}
    IN  {[op |-> "update", keys |-> keys, pc |-> "in",
          request |-> [UpdateExpression |-> <<>>,
                       ExpressionAttributeNames |-> NoNames],
          names |-> NoNames,
          applied |-> FALSE] : keys \in KeyLists}

\* str.encode('utf-8'): the bytes of every character in turn;
\* UnicodeEncodeError on a lone surrogate
RECURSIVE encode(_)
encode(content) ==
    IF content = <<>>
    THEN [ok |-> TRUE, bytes |-> <<>>]
    ELSE LET rest == encode(Tail(content))
             c == Head(content)
         IN  IF ~rest.ok \/ c = "<D800>"
             THEN [ok |-> FALSE, bytes |-> <<>>]
             ELSE [ok |-> TRUE,
                   bytes |-> (IF c = "a" THEN <<97>> ELSE <<195, 169>>)
                                \o rest.bytes]

\* a text, or the conversion raised
NoText == [ok |-> FALSE, s |-> <<>>]

\* variant: every byte is read as one character (latin-1)
RECURSIVE decode_Latin1(_)
decode_Latin1(bytes) ==
    IF bytes = <<>>
    THEN [ok |-> TRUE, s |-> <<>>]
    ELSE LET rest == decode_Latin1(Tail(bytes))
         IN  [ok |-> TRUE,
              s |-> <<IF bytes[1] = 97 THEN "a"
                      ELSE IF bytes[1] = 195 THEN "Ã" ELSE "©">> \o rest.s]

\* bytes.decode('utf-8'): one-byte and two-byte sequences;
\* UnicodeDecodeError on anything else
RECURSIVE decode(_)
decode(bytes) ==
    IF bytes = <<>>
    THEN [ok |-> TRUE, s |-> <<>>]
    ELSE IF bytes[1] = 97
    THEN LET rest == decode(Tail(bytes))
         IN  IF rest.ok THEN [ok |-> TRUE, s |-> <<"a">> \o rest.s]
                        ELSE NoText
    ELSE IF Len(bytes) >= 2 /\ bytes[1] = 195 /\ bytes[2] = 169
    THEN LET rest == decode(SubSeq(bytes, 3, Len(bytes)))
         IN  IF rest.ok THEN [ok |-> TRUE, s |-> <<"é">> \o rest.s]
                        ELSE NoText
    ELSE NoText

\* texts to save and the keys to save them under; the characters are an
\* ASCII letter, a non-ASCII letter and a lone surrogate, which has no UTF-8
\* encoding
BlobCalls ==
    LET TextChars == {"a", "é", "<D800>"}
        Texts == UNION {[1..n -> TextChars] : n \in 0..MaxTextLen}
        BlobKeys == {OutputKey("research", "W1", "P1"),
                     OutputKey("refine", "W1", "P1")}
    IN  {[op |-> "blob", content |-> content, key |-> key, pc |-> "in",
          uri |-> <<>>, target |-> <<>>, got |-> FALSE,
          overwritten |-> FALSE, text |-> NoText] :
            content \in Texts, key \in BlobKeys}

InitFn ==
    /\ posts = NoPosts
    /\ blobs = NoBlobs
    /\ settings = {}
    /\ clock = 0
    /\ inv = [i \in Inv |-> IdleInv]
    /\ lastw = NoWrites
    /\ fn \in SlugCalls \cup NormalizeCalls \cup UpdateCalls \cup BlobCalls

\* the slug of the model output is cleaned
Sanitize ==
    /\ fn.op = "slug" /\ fn.pc = "in"
    /\ fn' = [fn EXCEPT !.out = SlugAt(fn.impl, fn.slug, fn.i, fn.skipped),
                        !.pc = "once"]
    /\ UNCHANGED <<posts, settings, blobs, clock, inv, lastw>>

\* the cleaned slug is cleaned again at the same position
SanitizeAgain ==
    /\ fn.op = "slug" /\ fn.pc = "once" /\ fn.out.ok
    /\ fn' = [fn EXCEPT !.again = SlugAt(fn.impl, fn.out.slug, fn.i,
                                         fn.skipped),
                        !.pc = "twice"]
    /\ UNCHANGED <<posts, settings, blobs, clock, inv, lastw>>

\* the result of the function impl for a parsed model output; the slugs are
\* returned as strings
Apply(impl, output_data, n) ==
    CASE impl = "prompts" -> generate_image_prompts(output_data, n)
      [] impl = "pairs" -> generate_image_prompts_and_slugs(output_data, n)
      [] impl = "slugs" ->
            LET slugs == generate_slugs_from_prompts(output_data, n)
            IN  IF slugs.ok
                THEN Return([k \in 1..Len(slugs.items) |->
                                JStr(slugs.items[k])])
                ELSE Fail

\* the agent turns the parsed model output into its result
Normalize ==
    /\ fn.op = "normalize" /\ fn.pc = "in"
    /\ fn' = [fn EXCEPT
                !.res = Apply(fn.impl,
                              ModelOutput(fn.impl, fn.wrapper, fn.decoy,
                                          fn.kinds),
                              fn.n),
                !.pc = "out"]
    /\ UNCHANGED <<posts, settings, blobs, clock, inv, lastw>>

\* update_post_item builds the request for a non-empty attribute map and
\* sends it; the result is whether the store applied it (lines 89-130)
SendUpdate ==
    /\ fn.op = "update" /\ fn.pc = "in"
    /\ fn' = [fn EXCEPT
                !.request = update_kwargs(fn.keys),
                !.names = expression_attribute_names(fn.keys),
                !.applied = StoreApplies(update_kwargs(fn.keys)),
                !.pc = "out"]
    /\ UNCHANGED <<posts, settings, blobs, clock, inv, lastw>>

\* S3Helper.save_text_file: the encoded content is put under the key and the
\* locator is returned; None when the encoding or put_object raised
save_text_file ==
    /\ fn.op = "blob" /\ fn.pc = "in"
    /\ \E ok \in BOOLEAN :
          LET body == encode(fn.content) IN
          IF body.ok /\ ok
          THEN /\ blobs' = Merge(blobs, Attr(fn.key, body.bytes))
               /\ fn' = [fn EXCEPT !.uri = S3Uri(bucket_name, fn.key),
                                   !.pc = "saved"]
          ELSE /\ blobs' = blobs
               /\ fn' = [fn EXCEPT !.pc = "saved"]
    /\ UNCHANGED <<posts, settings, clock, inv, lastw>>

\* another writer puts a body under the key: a text, or bytes that are no
\* UTF-8
OverwriteBlob ==
    /\ fn.op = "blob" /\ fn.pc = "saved" /\ ~fn.overwritten
    /\ \E body \in {<<97, 97>>, <<255>>} :
          blobs' = Merge(blobs, Attr(fn.key, body))
    /\ fn' = [fn EXCEPT !.overwritten = TRUE]
    /\ UNCHANGED <<posts, settings, clock, inv, lastw>>

\* S3Helper.read_text_file with the locator save_text_file returned or with
\* another one (one of another bucket, one that is no s3 locator, the empty
\* one): the locator is checked, the object is fetched and decoded; None
\* when the locator is refused or get_object or the decoding raised
read_text_file ==
    /\ fn.op = "blob" /\ fn.pc = "saved"
    /\ \E s3_uri \in {fn.uri, <<"s3:", "", "other">> \o fn.key,
                      <<"https:", "", bucket_name>> \o fn.key, <<>>},
          ok \in BOOLEAN :
          IF ~ValidUri(s3_uri)
          THEN fn' = [fn EXCEPT !.target = s3_uri, !.pc = "read"]
          ELSE LET key == UriKey(s3_uri) IN
               fn' = [fn EXCEPT
                        !.target = s3_uri, !.got = TRUE, !.pc = "read",
                        !.text = IF ok /\ key \in DOMAIN blobs
                                 THEN decode(blobs[key])
                                 ELSE NoText]
    /\ UNCHANGED <<posts, settings, blobs, clock, inv, lastw>>

NextFn ==
    \/ Sanitize
    \/ SanitizeAgain
    \/ Normalize
    \/ SendUpdate
    \/ save_text_file
    \/ OverwriteBlob
    \/ read_text_file

SpecFn == InitFn /\ [][NextFn]_vars

(***************************************************************************)
(* Observations on an invocation's call log                                *)
(***************************************************************************)
Done(i) == inv[i].pc = "done"

\* the identifiers passed the precondition check
PassedPre(i) == inv[i].pc # "idle" /\ inv[i].post_id # "" /\ inv[i].website_id # ""

IsStatusWrite(e) == e.op = "update_status"

\* store writes: status or output attribute of the Post, or a blob
IsWrite(e) == e.op \in {"update_status", "update_output", "s3_write"}

\* the status values the invocation tried to write, in order
StatusWrites(i) ==
    LET w == SelectSeq(inv[i].log, IsStatusWrite)
    IN  [k \in 1..Len(w) |-> w[k].arg]

\* every write the invocation issued, in order
Writes(i) == SelectSeq(inv[i].log, IsWrite)

Called(i, op) == \E k \in 1..Len(inv[i].log) : inv[i].log[k].op = op

\* position of the first call of op in the log, 0 when there is none
FirstCall(i, op) ==
    IF Called(i, op)
    THEN CHOOSE k \in 1..Len(inv[i].log) :
            /\ inv[i].log[k].op = op
            /\ \A j \in 1..(k - 1) : inv[i].log[j].op # op
    ELSE 0

CalledOk(i, op) ==
    \E k \in 1..Len(inv[i].log) : inv[i].log[k].op = op /\ inv[i].log[k].ok

LastStatusWrite(i) ==
    IF Len(StatusWrites(i)) = 0 THEN "" ELSE StatusWrites(i)[Len(StatusWrites(i))]

\* the post item the invocation loaded names another website than the request
LoadedMismatch(i) ==
    /\ ~Missing(inv[i].post_item, WEBSITE_ID)
    /\ inv[i].post_item[WEBSITE_ID] # inv[i].website_id

\* _call_agent was entered and found the stage's upstream locator absent
UpstreamAbsent(i) ==
    /\ Called(i, "select_agent")
    /\ HasUpstream(inv[i].stage)
    /\ Missing(inv[i].post_item, upstream_key(inv[i].stage))

(***************************************************************************)
(* Claims                                                                  *)
(***************************************************************************)

C3_MetadataMissingUpstream ==
    \A i \in Inv :
        (inv[i].stage = "metadata" /\ UpstreamAbsent(i)) =>
            /\ ~Called(i, "agent")
            /\ Done(i) => inv[i].err.status_code = 400

\* C4: a refine, image-prompt or markdown invocation that finds its upstream
\* locator absent from the loaded Post calls no agent, reads and writes no
\* blob, writes no output field, and ends with status code 400 after a last
\* status write of "{prefix}_FAILED".
C4_MissingUpstreamRefused ==
    \A i \in Inv :
        (inv[i].stage \in {"refine", "image_prompt", "markdown"}
         /\ UpstreamAbsent(i)) =>
            /\ ~Called(i, "agent") /\ ~Called(i, "slug_agent")
            /\ ~Called(i, "s3_read") /\ ~Called(i, "s3_write")
            /\ ~Called(i, "update_output")
            /\ Done(i) =>
                  /\ inv[i].err.isService /\ inv[i].err.status_code = 400
                  /\ LastStatusWrite(i) = StatusFAILED(inv[i].stage)

C4_Witness ==
    \E i \in Inv :
        /\ Done(i) /\ UpstreamAbsent(i)
        /\ inv[i].stage = "image_prompt"
        /\ inv[i].err.status_code = 400

\* C5: an invocation that passed the precondition check and failed ends with
\* "{prefix}_FAILED" as its last status write and raises a ServiceError that
\* carries the stage's service name; a ServiceError keeps its status code and
\* any other exception is wrapped with status code 500.
C5_FailureIsTyped ==
    \A i \in Inv :
        (Done(i) /\ PassedPre(i) /\ ~inv[i].result.returned) =>
            /\ LastStatusWrite(i) = StatusFAILED(inv[i].stage)
            /\ inv[i].err.isService
            /\ inv[i].err.service_name = service_name(inv[i].stage)
            /\ inv[i].exc.isService =>
                  inv[i].err.status_code = inv[i].exc.status_code
            /\ ~inv[i].exc.isService => inv[i].err.status_code = 500

C7_PreconditionBeforeStores ==
    \A i \in Inv :
        (inv[i].pc # "idle" /\ inv[i].stage \in BaseStages
         /\ (inv[i].post_id = "" \/ inv[i].website_id = "")) =>
            /\ Done(i)
            /\ inv[i].err.isService /\ inv[i].err.status_code = 400
            /\ inv[i].log = <<>>

C7_Witness ==
    \E i \in Inv :
        /\ Done(i) /\ inv[i].stage = "refine"
        /\ inv[i].post_id = "P1" /\ inv[i].website_id = ""
        /\ inv[i].err.status_code = 400

\* C8: an invocation for a postId that had no Post record when it was invoked
\* ends by raising status code 404.
C8_AbsentPostNotFound ==
    \A i \in Inv :
        (Done(i) /\ PassedPre(i) /\ ~inv[i].existed) =>
            inv[i].err.status_code = 404

\* C9: the agent is selected and called only after the Post was loaded, found
\* to belong to the requested website, and the settings of that website were
\* loaded, in this order; when the settings are not found the invocation calls
\* no agent, persists nothing and ends with status code 404.
C9_AgentAfterLoads ==
    \A i \in Inv :
        /\ (Called(i, "select_agent") \/ Called(i, "agent")) =>
              /\ CalledOk(i, "get_post") /\ CalledOk(i, "get_settings")
              /\ FirstCall(i, "get_post") < FirstCall(i, "get_settings")
              /\ FirstCall(i, "get_settings") < FirstCall(i, "select_agent")
              /\ Called(i, "agent") =>
                    FirstCall(i, "select_agent") < FirstCall(i, "agent")
              /\ inv[i].post_item[WEBSITE_ID] = inv[i].website_id
              /\ inv[i].website_id \in settings
        /\ (Called(i, "get_settings") /\ ~CalledOk(i, "get_settings")) =>
              /\ ~Called(i, "select_agent") /\ ~Called(i, "agent")
              /\ ~Called(i, "update_output") /\ ~Called(i, "s3_write")
              /\ Done(i) => inv[i].err.isService /\ inv[i].err.status_code = 404

C9_Witness ==
    \E i \in Inv :
        /\ Done(i)
        /\ Called(i, "get_settings") /\ inv[i].website_id \notin settings
        /\ inv[i].err.status_code = 404

\* C10: an invocation whose agent returned None or an empty value persists no
\* output and ends with status code 500 and a last status write of
\* "{prefix}_FAILED".
C10_EmptyAgentResultFails ==
    \A i \in Inv :
        (CalledOk(i, "agent") /\ Falsy(inv[i].agent_output)) =>
            /\ ~CalledOk(i, "s3_write") /\ ~CalledOk(i, "update_output")
            /\ Done(i) =>
                  /\ inv[i].err.status_code = 500
                  /\ LastStatusWrite(i) = StatusFAILED(inv[i].stage)

\* _save_agent_output was called and returned no locator
PersistFailed(i) == Called(i, "save") /\ inv[i].s3_uri = <<>>

\* C11: when the persistence step of a stage returns no locator (the blob
\* write or the inline record write was rejected, or the agent output has the
\* wrong type for the stage), the invocation raises a ServiceError with status
\* code 500, it does not write the stage's output key on the Post, it never
\* writes COMPLETE, and its last status write is "{prefix}_FAILED".
C11_PersistenceFailure ==
    \A i \in Inv :
        /\ PersistFailed(i) =>
              /\ inv[i].pc \in {"except", "done"}
              /\ inv[i].exc.isService /\ inv[i].exc.status_code = 500
              /\ ~CalledOk(i, "update_output")
              /\ \A k \in 1..Len(StatusWrites(i)) :
                    StatusWrites(i)[k] # StatusCOMPLETE(inv[i].stage)
              /\ Done(i) =>
                    /\ inv[i].err.isService /\ inv[i].err.status_code = 500
                    /\ ~inv[i].result.returned
                    /\ LastStatusWrite(i) = StatusFAILED(inv[i].stage)
        /\ \* a wrong type at the save step and a rejected persistence write
           \* leave the step without a locator
           (Called(i, "save")
            /\ (\/ ~SaveTypeOk(inv[i].stage, inv[i].agent_output)
                \/ (Called(i, "s3_write") /\ ~CalledOk(i, "s3_write"))
                \/ (InlineStage(inv[i].stage) /\ Called(i, "update_output")
                    /\ ~CalledOk(i, "update_output"))))
           => PersistFailed(i)

\* the inline record write of a metadata invocation was rejected
C11_Witness ==
    \E i \in Inv :
        /\ Done(i) /\ PersistFailed(i)
        /\ inv[i].stage = "metadata"
        /\ Called(i, "update_output") /\ ~CalledOk(i, "update_output")
        /\ LastStatusWrite(i) = StatusFAILED(inv[i].stage)

\* every store call the invocation issued was accepted
StoresAccepted(i) ==
    \A k \in 1..Len(inv[i].log) :
        inv[i].log[k].op \notin {"agent", "slug_agent"} => inv[i].log[k].ok

\* C12: with Post P1 (websiteId W1, blogTitle X), settings for W1 and stores
\* that accept every call, a research invocation for (P1, W1) ends with the
\* Post's researchArticleUri pointing at the blob W1/P1/research_article.txt,
\* that blob holding the agent's non-empty text, and the Post's status equal
\* to RESEARCH_COMPLETE.
C12_ResearchEndToEnd ==
    \A i \in Inv :
        (/\ Done(i) /\ inv[i].stage = "research"
         /\ inv[i].post_id = "P1" /\ inv[i].website_id = "W1"
         /\ inv[i].existed /\ "W1" \in settings
         /\ StoresAccepted(i)) =>
            LET key == OutputKey("research", "W1", "P1") IN
            /\ inv[i].result.returned
            /\ ~Missing(posts["P1"], RESEARCH_ARTICLE_URI)
            /\ posts["P1"][RESEARCH_ARTICLE_URI] = S3Uri(bucket_name, key)
            /\ key \in DOMAIN blobs
            /\ inv[i].agent_output.type = "str" /\ ~inv[i].agent_output.empty
            /\ blobs[key] = inv[i].agent_output.val
            /\ posts["P1"][POST_STATUS] = "RESEARCH_COMPLETE"

\* invocation i issued an accepted status write of status
WroteStatus(i, status) ==
    \E k \in 1..Len(inv[i].log) :
        /\ inv[i].log[k].op = "update_status"
        /\ inv[i].log[k].arg = status
        /\ inv[i].log[k].ok

\* the value invocation i writes under its stage's output key
OutputValue(i) ==
    IF InlineStage(inv[i].stage) THEN inv[i].agent_output.val
                                 ELSE inv[i].s3_uri

\* invocation i issued an accepted write of value under the attribute key
Wrote(i, key, value) ==
    IF key = POST_STATUS
    THEN WroteStatus(i, value)
    ELSE /\ key = output_uri_db_key(inv[i].stage)
         /\ CalledOk(i, "update_output")
         /\ value = OutputValue(i)

\* C13: the writes of two concurrent invocations to a Post are applied one at
\* a time as partial updates: at any moment, and so after both have finished,
\* each attribute an invocation wrote holds the value of the write to that
\* attribute that was applied last, a value that invocation did write; an
\* attribute no invocation wrote keeps the value it had.
C13_LastWriteWins ==
    \A p \in DOMAIN lastw :
        /\ \A k \in DOMAIN lastw[p] :
              /\ p \in DOMAIN posts /\ k \in DOMAIN posts[p]
              /\ posts[p][k] = lastw[p][k].val
              /\ lastw[p][k].by \in DOMAIN inv
              /\ Wrote(lastw[p][k].by, k, lastw[p][k].val)
        /\ \A k \in DOMAIN RefinedPost \ (DOMAIN lastw[p] \cup {UPDATE_TIMESTAMP}) :
              /\ p \in DOMAIN posts /\ k \in DOMAIN posts[p]
              /\ posts[p][k] = RefinedPost[k]

\* two metadata invocations have finished; the Post holds the metadata of one
\* and the status of the other
C13_Witness ==
    /\ \A i \in DOMAIN inv : Done(i) /\ inv[i].stage = "metadata"
    /\ inv["i1"].agent_output.val # inv["i2"].agent_output.val
    /\ CalledOk("i1", "update_output") /\ CalledOk("i2", "update_output")
    /\ {METADATA, POST_STATUS} \subseteq DOMAIN lastw["P1"]
    /\ lastw["P1"][METADATA].by = "i1"
    /\ posts["P1"][METADATA] = inv["i1"].agent_output.val
    /\ lastw["P1"][POST_STATUS].by = "i2"
    /\ posts["P1"][POST_STATUS] = "METADATA_COMPLETE"

\* the item stored under post id p, a new item when there is none
ItemOf(ps, p) == IF p \in DOMAIN ps THEN ps[p] ELSE Attr(POST_ID, p)

\* attribute k is added, removed or given another value
AttrChanged(old, new, k) ==
    \/ (k \in DOMAIN old) # (k \in DOMAIN new)
    \/ k \in DOMAIN old /\ k \in DOMAIN new /\ old[k] # new[k]

\* C14: a step of an invocation changes no Post attribute besides its stage's
\* output key, the status and updateTimestamp (websiteId, blogTitle and the
\* other stages' output fields keep their values), whether the invocation
\* succeeds or fails and also when invocations of different stages
\* interleave; a step of no invocation changes no Post.
C14_Frame ==
    [][/\ \A i \in DOMAIN inv :
             inv'[i] # inv[i] =>
                 \A p \in DOMAIN posts \cup DOMAIN posts' :
                     /\ p \in DOMAIN posts'
                     /\ \A k \in DOMAIN ItemOf(posts, p) \cup DOMAIN posts'[p] :
                           AttrChanged(ItemOf(posts, p), posts'[p], k) =>
                               k \in {output_uri_db_key(inv'[i].stage),
                                      POST_STATUS, UPDATE_TIMESTAMP}
       /\ (\A i \in DOMAIN inv : inv'[i] = inv[i]) => posts' = posts
      ]_vars

\* a refine and a metadata invocation overlapped, both wrote their output,
\* and the Post still has the websiteId, blogTitle and researchArticleUri it
\* had
C14_Witness ==
    /\ Done("i1") /\ inv["i1"].stage = "refine"
    /\ Done("i2") /\ inv["i2"].stage = "metadata"
    /\ "i1" \notin inv["i2"].after /\ "i2" \notin inv["i1"].after
    /\ CalledOk("i1", "update_output") /\ CalledOk("i2", "update_output")
    /\ posts["P1"][WEBSITE_ID] = RefinedPost[WEBSITE_ID]
    /\ posts["P1"][BLOG_TITLE] = RefinedPost[BLOG_TITLE]
    /\ posts["P1"][RESEARCH_ARTICLE_URI] = RefinedPost[RESEARCH_ARTICLE_URI]
    /\ posts["P1"][METADATA] = inv["i2"].agent_output.val

\* invocation j was called for the same post and stage after invocation i
\* had returned or raised
ReInvoked(i, j) ==
    /\ i # j /\ i \in inv[j].after
    /\ inv[j].pc # "idle"
    /\ inv[i].stage = inv[j].stage /\ inv[i].post_id = inv[j].post_id

\* C15: an invocation for a (post, stage) that an earlier invocation has
\* already left COMPLETE or FAILED runs every step again: its accepted STARTED
\* write puts the status back to "{prefix}_STARTED", with the stores accepting
\* its calls it calls the agent again, and the status and output it writes
\* replace the earlier ones.
C15_ReInvocationOverwrites ==
    \A i, j \in DOMAIN inv :
        ReInvoked(i, j) =>
            /\ (inv[j].pc = "get_post"
                /\ WroteStatus(j, StatusSTARTED(inv[j].stage))) =>
                  posts[inv[j].post_id][POST_STATUS] = StatusSTARTED(inv[j].stage)
            /\ (Done(j) /\ StoresAccepted(j)) =>
                  /\ Called(j, "agent")
                  /\ posts[inv[j].post_id][POST_STATUS] = LastStatusWrite(j)
                  /\ LastStatusWrite(j) = inv[j].current_status
                  /\ inv[j].result.returned =>
                        /\ LastStatusWrite(j) = StatusCOMPLETE(inv[j].stage)
                        /\ posts[inv[j].post_id][output_uri_db_key(inv[j].stage)]
                              = OutputValue(j)
                        /\ lastw[inv[j].post_id][output_uri_db_key(inv[j].stage)].by
                              = j

\* a metadata invocation completed, a second one was called afterwards and
\* completed with other metadata, which the Post now holds
C15_Witness ==
    /\ ReInvoked("i1", "i2")
    /\ inv["i1"].stage = "metadata"
    /\ Done("i1") /\ inv["i1"].result.returned
    /\ StoresAccepted("i1") /\ StoresAccepted("i2")
    /\ Done("i2") /\ inv["i2"].result.returned
    /\ inv["i1"].agent_output.val # inv["i2"].agent_output.val
    /\ posts["P1"][METADATA] = inv["i2"].agent_output.val
    /\ posts["P1"][POST_STATUS] = "METADATA_COMPLETE"
    /\ StatusWrites("i2") = <<"METADATA_STARTED", "METADATA_COMPLETE">>

\* C16: every applied Post write stamps updateTimestamp with the clock value
\* read for that call, and the updateTimestamp of a Post never decreases from
\* one write to the next, the writes of concurrent invocations included.
C16_TimestampMonotonic ==
    [][\A p \in DOMAIN posts \cap DOMAIN posts' :
          /\ posts'[p] # posts[p] =>
                /\ UPDATE_TIMESTAMP \in DOMAIN posts'[p]
                /\ \E i \in DOMAIN inv :
                      /\ inv'[i] # inv[i]
                      /\ posts'[p][UPDATE_TIMESTAMP] = inv[i].now
          /\ UPDATE_TIMESTAMP \in DOMAIN posts[p] =>
                /\ UPDATE_TIMESTAMP \in DOMAIN posts'[p]
                /\ posts'[p][UPDATE_TIMESTAMP] >= posts[p][UPDATE_TIMESTAMP]
      ]_vars

\* the slug the sanitization rule gives for an input at a position: the
\* lower-cased input without the characters outside [a-z0-9-], hyphen runs
\* collapsed, the ends trimmed, or image-{position} when nothing is left
SanitizedSlug(slug, i) ==
    IF RegexClean(slug) # <<>> THEN RegexClean(slug) ELSE ImageDefault(i)

\* C17: slug sanitization gives 'a-beautiful-day' for 'A Beautiful Day!!' and
\* 'image-2' for the empty input at position 2, and in general the slug of
\* the sanitization rule.
C17_SlugSanitization ==
    (fn.op = "slug" /\ fn.pc # "in") =>
        /\ fn.out.ok
        /\ fn.slug = ExampleTitle => fn.out.slug = ExampleSlug
        /\ (fn.slug = <<>> /\ fn.i = 2) => fn.out.slug = ImageDefault(2)
        /\ fn.slug # ExampleTitle => fn.out.slug = SanitizedSlug(fn.slug, fn.i)

\* a slug in normal form: not empty, only characters of [a-z0-9-], no two
\* hyphens in a row, no hyphen at either end
NormalSlug(s) ==
    /\ Len(s) > 0
    /\ \A k \in 1..Len(s) : IsSlugChar(s[k])
    /\ \A k \in 1..(Len(s) - 1) : ~(s[k] = "-" /\ s[k + 1] = "-")
    /\ s[1] # "-" /\ s[Len(s)] # "-"

\* C18: the slug an agent returns is in normal form, and normalizing it again
\* at the same position returns it unchanged.
C18_SlugIdempotent ==
    (fn.op = "slug" /\ fn.impl \in {"slug_agent", "prompt_agent"}) =>
        /\ fn.pc # "in" => fn.out.ok /\ NormalSlug(fn.out.slug)
        /\ fn.pc = "twice" => fn.again = fn.out

\* an element of the shape the function was asked for: a string for the
\* prompt list, an item with a prompt and a string slug for the pair list
IsPromptElement(e) == e.t = "str"

IsPairElement(e) ==
    /\ e.t = "dict"
    /\ {"prompt", "slug"} \subseteq DOMAIN e.f
    /\ e.f["prompt"].t = "str" /\ e.f["slug"].t = "str"

\* the valid elements of the model output handed to the function, in order
ValidElements ==
    IF fn.impl = "prompts"
    THEN SelectSeq(Elements(fn.kinds), IsPromptElement)
    ELSE SelectSeq(Elements(fn.kinds), IsPairElement)

\* C19: when n items are requested and the model output holds V valid
\* elements, the function returns the first min(n, V) of them in order when
\* V >= 1, and fails when V = 0.
C19_CountEnforcement ==
    (fn.op = "normalize" /\ fn.pc = "out" /\ fn.decoy = "none"
     /\ fn.impl \in {"prompts", "pairs"}) =>
        IF Len(ValidElements) = 0
        THEN ~fn.res.ok
        ELSE fn.res.ok /\ fn.res.items = Take(ValidElements, fn.n)

\* the bundled agent of a structured stage, or the slug agent, was given model
\* text that is not JSON
GotUnparseable(i) == InlineStage(inv[i].stage) /\ inv[i].raw = "not json"

\* C20: when the agent of a structured stage (image prompts and their slugs,
\* metadata) receives model text that is not JSON, the invocation fails with
\* a ServiceError of status code 500, neither the Post's output key nor a
\* blob is written, COMPLETE is never written, and the last status write is
\* "{prefix}_FAILED".
C20_UnparseableOutputFails ==
    \A i \in Inv :
        GotUnparseable(i) =>
            /\ inv[i].pc \in {"except", "done"}
            /\ ~Called(i, "save")
            /\ ~Called(i, "update_output") /\ ~Called(i, "s3_write")
            /\ \A k \in 1..Len(StatusWrites(i)) :
                  StatusWrites(i)[k] # StatusCOMPLETE(inv[i].stage)
            /\ Done(i) =>
                  /\ inv[i].err.isService /\ inv[i].err.status_code = 500
                  /\ ~inv[i].result.returned
                  /\ LastStatusWrite(i) = StatusFAILED(inv[i].stage)

\* a metadata invocation whose agent was given "not json" has ended
C20_Witness ==
    \E i \in Inv :
        /\ Done(i) /\ GotUnparseable(i)
        /\ inv[i].stage = "metadata"
        /\ Called(i, "agent") /\ ~CalledOk(i, "agent")
        /\ inv[i].err.status_code = 500
        /\ LastStatusWrite(i) = StatusFAILED(inv[i].stage)

\* C21: a probed key that comes first and holds a value that is not a list
\* does not keep the function from using the list under a later key: the
\* result is the one the function gives without the first key.
C21_FirstSequenceCandidate ==
    (fn.op = "normalize" /\ fn.pc = "out" /\ fn.decoy # "none") =>
        fn.res = Apply(fn.impl,
                       ModelOutput(fn.impl, fn.wrapper, "none", fn.kinds),
                       fn.n)

\* C22: in the prompt/slug function the validation of the elements never
\* fails the batch and keeps, in order, exactly the elements that are objects
\* with a string prompt and a string slug; every element of a returned result
\* is such an object.
C22_ValidationIsFilter ==
    (fn.op = "normalize" /\ fn.pc = "out" /\ fn.impl = "pairs"
     /\ fn.decoy = "none") =>
        LET validated == ValidateItems(Elements(fn.kinds), 1, <<>>) IN
        /\ validated.ok
        /\ validated.items = SelectSeq(Elements(fn.kinds), IsPairElement)
        /\ fn.res.ok =>
              \A k \in 1..Len(fn.res.items) : IsPairElement(fn.res.items[k])

\* the model output is a top-level list of at least one element, all of the
\* kind the function is after
TopLevelList ==
    /\ fn.op = "normalize" /\ fn.wrapper = "list"
    /\ Len(fn.kinds) >= 1
    /\ \A k \in 1..Len(fn.kinds) : fn.kinds[k] = ValidKind(fn.impl)

\* C23: a top-level list of elements of the target shape is used directly
\* by each of the three functions (prompt strings, slug strings, prompt/slug
\* pairs): the call succeeds and the result starts with the list's elements,
\* up to the requested count.
C23_TopLevelListUsed ==
    (TopLevelList /\ fn.pc = "out") =>
        LET m == IF Len(fn.kinds) < fn.n THEN Len(fn.kinds) ELSE fn.n IN
        /\ fn.res.ok
        /\ Len(fn.res.items) >= m
        /\ \A k \in 1..m : fn.res.items[k] = Elements(fn.kinds)[k]

\* C24: in the request update_post_item sends, every attribute name that is
\* a reserved word stands in the expression as a name placeholder, the
\* request's ExpressionAttributeNames defines every placeholder of the
\* expression as the name it stands for, and the store applies the update.
C24_ReservedNamesAliased ==
    (fn.op = "update" /\ fn.pc = "out") =>
        /\ \A k \in 1..Len(fn.request.UpdateExpression) :
              LET part == fn.request.UpdateExpression[k] IN
              /\ is_reserved(part.key) => part.placeholder
              /\ part.placeholder =>
                    /\ part.i \in DOMAIN fn.request.ExpressionAttributeNames
                    /\ fn.request.ExpressionAttributeNames[part.i] = part.key
        /\ fn.applied

\* C25: a text read back with the locator save_text_file returned, with no
\* other write to the key in between, is the text that was saved; a locator
\* that is not one of the configured bucket is refused without a read of the
\* store.
C25_RoundTrip ==
    (fn.op = "blob" /\ fn.pc = "read") =>
        /\ (fn.uri # <<>> /\ fn.target = fn.uri /\ ~fn.overwritten
            /\ fn.text.ok) => fn.text.s = fn.content
        /\ ~IsPrefix(S3Uri(bucket_name, <<>>), fn.target) =>
              ~fn.got /\ ~fn.text.ok

\* a text with a non-ASCII letter was saved and read back
C25_Witness ==
    /\ fn.op = "blob" /\ fn.pc = "read"
    /\ fn.uri # <<>> /\ fn.target = fn.uri /\ ~fn.overwritten
    /\ fn.text.ok /\ fn.text.s = fn.content
    /\ \E k \in 1..Len(fn.content) : fn.content[k] = "é"

\* the agent of the invocation raised on the model text it was given
FailedOnText(i) ==
    /\ inv[i].raw # ""
    /\ \/ Called(i, "agent") /\ ~CalledOk(i, "agent")
       \/ Called(i, "slug_agent") /\ ~CalledOk(i, "slug_agent")

\* C26: what the caller is sent when the agent failed on the model's text
\* does not depend on that text: for every such text it is status code 500
\* with the same fixed message.
C26_MessageIndependentOfText ==
    \A i \in Inv :
        (Done(i) /\ FailedOnText(i)) =>
            format_response(inv[i].err) =
                [statusCode |-> 500,
                 error |-> "An unexpected error occurred during processing."]

\* a metadata invocation whose model returned JSON without the metadata
\* fields has ended
C26_Witness ==
    \E i \in Inv :
        /\ Done(i) /\ FailedOnText(i)
        /\ inv[i].stage = "metadata" /\ inv[i].raw = "{}"
        /\ format_response(inv[i].err).statusCode = 500

\* the Record Store rejected the STARTED write of the invocation
StartedRejected(i) ==
    /\ Len(inv[i].log) >= 1
    /\ inv[i].log[1].op = "update_status"
    /\ inv[i].log[1].arg = StatusSTARTED(inv[i].stage)
    /\ ~inv[i].log[1].ok

\* C27: when the Record Store rejects the "{prefix}_STARTED" write of a
\* stage of the base service, the invocation does not fail there: its next
\* step is the load of the Post.
C27_StartedWriteBestEffort ==
    \A i \in Inv :
        (inv[i].stage \in BaseStages /\ StartedRejected(i)) =>
            IF Len(inv[i].log) = 1
            THEN inv[i].pc = "get_post"
            ELSE inv[i].log[2].op = "get_post"

\* a refine invocation whose STARTED write was rejected saved its output,
\* wrote the locator and COMPLETE and returned its result
C27_Witness ==
    \E i \in Inv :
        /\ inv[i].stage = "refine" /\ StartedRejected(i)
        /\ Done(i) /\ inv[i].result.returned
        /\ CalledOk(i, "s3_write") /\ CalledOk(i, "update_output")
        /\ LastStatusWrite(i) = StatusCOMPLETE("refine")
        /\ inv[i].post_id \in DOMAIN posts
        /\ POST_STATUS \in DOMAIN posts[inv[i].post_id]
        /\ posts[inv[i].post_id][POST_STATUS] = StatusCOMPLETE("refine")

\* the invocation issued the write and the Record Store rejected it
Rejected(i, op, arg) ==
    \E k \in 1..Len(inv[i].log) :
        /\ inv[i].log[k].op = op /\ inv[i].log[k].arg = arg
        /\ ~inv[i].log[k].ok

\* the blob of a blob-backed stage was written, and the write of its locator
\* to the Post or the COMPLETE status write was rejected
SavedButNotRecorded(i) ==
    /\ ~InlineStage(inv[i].stage)
    /\ CalledOk(i, "s3_write")
    /\ \/ Rejected(i, "update_output", output_uri_db_key(inv[i].stage))
       \/ Rejected(i, "update_status", StatusCOMPLETE(inv[i].stage))

\* C28: when the blob of a blob-backed stage was written and the write of
\* the locator to the Post or the COMPLETE status write is rejected, the
\* invocation does not raise, writes no FAILED status and leaves the blob
\* where it is, and it ends returning a result with the postId and the
\* locator.
C28_NoCompensation ==
    \A i \in Inv :
        SavedButNotRecorded(i) =>
            LET r == inv[i]
                key == OutputKey(r.stage, r.website_id, r.post_id)
            IN  /\ r.pc \in {"complete", "done"}
                /\ \A k \in 1..Len(StatusWrites(i)) :
                      StatusWrites(i)[k] # StatusFAILED(r.stage)
                /\ key \in DOMAIN blobs /\ blobs[key] = r.agent_output.val
                /\ Done(i) =>
                      /\ r.result.returned /\ ~r.err.isService
                      /\ r.result.postId = r.post_id
                      /\ r.result.key = output_uri_db_key(r.stage)
                      /\ r.result.uri = S3Uri(bucket_name, key)

\* a refine invocation returned its result although the locator write was
\* rejected: the blob is there and the Post has no locator
C28_Witness ==
    \E i \in Inv :
        /\ inv[i].stage = "refine" /\ Done(i) /\ SavedButNotRecorded(i)
        /\ Rejected(i, "update_output", REFINED_ARTICLE_URI)
        /\ inv[i].result.returned
        /\ inv[i].post_id \in DOMAIN posts
        /\ REFINED_ARTICLE_URI \notin DOMAIN posts[inv[i].post_id]
        /\ UriKey(inv[i].result.uri) \in DOMAIN blobs

\* the Post of invocation i has the status COMPLETE of its stage, written by i
CompleteBy(i) ==
    LET p == inv[i].post_id IN
    /\ WroteStatus(i, StatusCOMPLETE(inv[i].stage))
    /\ p \in DOMAIN posts /\ POST_STATUS \in DOMAIN posts[p]
    /\ posts[p][POST_STATUS] = StatusCOMPLETE(inv[i].stage)

\* the output key of the stage of invocation i holds, on its Post, the value
\* i produced
HoldsOutputOf(i) ==
    LET p == inv[i].post_id
        k == output_uri_db_key(inv[i].stage)
    IN  /\ p \in DOMAIN posts /\ k \in DOMAIN posts[p]
        /\ posts[p][k] = OutputValue(i)

WritesAccepted(i) ==
    \A k \in 1..Len(inv[i].log) :
        inv[i].log[k].op \in {"update_status", "update_output"}
            => inv[i].log[k].ok

\* a stage of the base service ended after passing the precondition check:
\* it returned a result or raised a ServiceError, the last call it issued is
\* the write of a terminal status, and when the store accepted its writes
\* the Post has that status
EndedProperly(i) ==
    LET r == inv[i]
        terminal == {StatusCOMPLETE(r.stage), StatusFAILED(r.stage)}
    IN  /\ r.result.returned # r.err.isService
        /\ Len(r.log) >= 1
        /\ r.log[Len(r.log)].op = "update_status"
        /\ r.log[Len(r.log)].arg \in terminal
        /\ r.log[Len(r.log)].arg = LastStatusWrite(i)
        /\ WritesAccepted(i) =>
              /\ r.post_id \in DOMAIN posts
              /\ POST_STATUS \in DOMAIN posts[r.post_id]
              /\ posts[r.post_id][POST_STATUS] = LastStatusWrite(i)
              /\ posts[r.post_id][POST_STATUS] # StatusSTARTED(r.stage)

====
